---- MODULE Spec2Model ----
(***************************************************************************)
(* Model of primitive_db: the Database facade (core.py), the schema model  *)
(* (models.py), the JSON persistence helpers (utils.py) and the closure    *)
(* cache and confirmation decorators (decorators.py).                      *)
(*                                                                         *)
(* Python str values are sequences of one-character strings, so that       *)
(* concatenation (the cache key), split(":", 1), lower(), startswith and   *)
(* int() are computed character by character.  A Python value of a record  *)
(* field is [t, i, s]: t is its runtime type, i its numeric value (bool is *)
(* a subclass of int: True is 1, False is 0), s its text.                  *)
(***************************************************************************)
EXTENDS Integers, Sequences, FiniteSets, TLC

VARIABLES tables, metadata, data, cache, seen, last

vars == <<tables, metadata, data, cache, seen, last>>

----------------------------------------------------------------------------
(* Bounds *)

MaxRows == 2
MaxId == 2
MaxCache == 1
MaxSaved == 2

----------------------------------------------------------------------------
(* Text literals *)

s_ID == <<"I", "D">>
s_None == <<"N", "o", "n", "e">>
s_int == <<"i", "n", "t">>
s_str == <<"s", "t", "r">>
s_bool == <<"b", "o", "o", "l">>
s_t == <<"t">>
s_u == <<"u">>
s_0 == <<"0">>
s_n == <<"n">>
s_YES == <<"Y", "E", "S">>

Colon == ":"
Quote == "\""

\* the Cyrillic letters de and a are written "cyr_de", "cyr_a" (lower case)
\* and "CYR_DE", "CYR_A" (upper case)

Upper == <<"A", "B", "C", "D", "E", "F", "G", "H", "I", "J", "K", "L", "M",
           "N", "O", "P", "Q", "R", "S", "T", "U", "V", "W", "X", "Y", "Z",
           "CYR_DE", "CYR_A">>
Lower == <<"a", "b", "c", "d", "e", "f", "g", "h", "i", "j", "k", "l", "m",
           "n", "o", "p", "q", "r", "s", "t", "u", "v", "w", "x", "y", "z",
           "cyr_de", "cyr_a">>
Digits == <<"0", "1", "2", "3", "4", "5", "6", "7", "8", "9">>

\* str.lower(), one character
LowerChar(c) ==
    IF \E k \in 1..Len(Upper) : Upper[k] = c
    THEN Lower[CHOOSE k \in 1..Len(Upper) : Upper[k] = c]
    ELSE c

ToLower_Identity(s) == s

\* str.lower()
ToLower(s) == [k \in 1..Len(s) |-> LowerChar(s[k])]

\* an Optional[str] argument: None or a text
NoneArg == [some |-> FALSE, s |-> <<>>]
Some(x) == [some |-> TRUE, s |-> x]

\* str(x) inside an f-string: None prints as the text None
Fmt(x) == IF x.some THEN x.s ELSE s_None

----------------------------------------------------------------------------
(* Python values *)

IntV(n) == [t |-> "int", i |-> n, s |-> <<>>]
BoolV(b) == [t |-> "bool", i |-> IF b THEN 1 ELSE 0, s |-> <<>>]
StrV(x) == [t |-> "str", i |-> 0, s |-> x]
NoneV == [t |-> "none", i |-> 0, s |-> <<>>]

\* Python ==  on int, bool, str and None
PyEq(x, y) ==
    IF x.t = "none" \/ y.t = "none" THEN x.t = y.t
    ELSE IF x.t = "str" \/ y.t = "str" THEN x.t = y.t /\ x.s = y.s
    ELSE x.i = y.i

----------------------------------------------------------------------------
(* constants.py (not among the source files): the valid column types *)

VALID_TYPES == {s_int, s_str, s_bool}

----------------------------------------------------------------------------
(* Database._validate_value *)

IsDigit(c) == \E k \in 1..Len(Digits) : Digits[k] = c
DigitVal(c) == (CHOOSE k \in 1..Len(Digits) : Digits[k] = c) - 1

RECURSIVE DigitsVal(_)
DigitsVal(ds) ==
    IF ds = <<>> THEN 0
    ELSE 10 * DigitsVal(SubSeq(ds, 1, Len(ds) - 1)) + DigitVal(ds[Len(ds)])

\* the part of an int literal after its optional sign
IntBody(s) == IF s # <<>> /\ s[1] \in {"+", "-"} THEN Tail(s) ELSE s

\* int(value) succeeds: optional sign, then one or more decimal digits
\* (surrounding blanks and digit-group underscores are outside the alphabet)
IsIntLiteral(s) ==
    /\ IntBody(s) # <<>>
    /\ \A k \in 1..Len(IntBody(s)) : IsDigit(IntBody(s)[k])

\* int(value)
IntOf(s) ==
    IF s[1] = "-" THEN 0 - DigitsVal(IntBody(s)) ELSE DigitsVal(IntBody(s))

BoolTrueTexts == {<<"t", "r", "u", "e">>, <<"1">>, <<"y", "e", "s">>}
BoolFalseTexts == {<<"f", "a", "l", "s", "e">>, <<"0">>, <<"n", "o">>}

\* value.startswith('"') and value.endswith('"')
IsQuoted(s) == s # <<>> /\ s[1] = Quote /\ s[Len(s)] = Quote

\* value[1:-1]
StripEnds(s) == SubSeq(s, 2, Len(s) - 1)

Ok(v) == [ok |-> TRUE, v |-> v]
Fail == [ok |-> FALSE, v |-> NoneV]

\* _validate_value(value, expected_type): the coerced value, or Fail when
\* ValidationError is raised
ValidateValue(value, expected_type) ==
    IF expected_type = s_int
    THEN IF IsIntLiteral(value) THEN Ok(IntV(IntOf(value))) ELSE Fail
    ELSE IF expected_type = s_str
    THEN IF IsQuoted(value) THEN Ok(StrV(StripEnds(value))) ELSE Ok(StrV(value))
    ELSE IF expected_type = s_bool
    THEN IF ToLower(value) \in BoolTrueTexts THEN Ok(BoolV(TRUE))
         ELSE IF ToLower(value) \in BoolFalseTexts THEN Ok(BoolV(FALSE))
         ELSE Fail
    ELSE Fail

----------------------------------------------------------------------------
(* models.py *)

\* Column(name, type)
Column(name, type) == [name |-> name, type |-> type]

NewTable_IdLast(columns) == columns \o <<Column(s_ID, s_int)>>

\* Table.__init__: the ID column first, then the caller's columns
NewTable(columns) == <<Column(s_ID, s_int)>> \o columns

\* Table.get_column succeeds
HasColumn(cols, name) == \E k \in 1..Len(cols) : cols[k].name = name

\* Table.get_column: the first column of that name
GetColumn(cols, name) ==
    cols[CHOOSE k \in 1..Len(cols) :
            /\ cols[k].name = name
            /\ \A j \in 1..(k - 1) : cols[j].name # name]

\* a dict built by assigning the pairs in order: a repeated key keeps the
\* position of its first assignment and the value of its last
RECURSIVE DictOf(_)
DictOf(pairs) ==
    IF pairs = <<>> THEN <<>>
    ELSE LET rest == DictOf(SubSeq(pairs, 1, Len(pairs) - 1))
             p == pairs[Len(pairs)]
         IN  IF \E k \in 1..Len(rest) : rest[k].name = p.name
             THEN [k \in 1..Len(rest) |->
                      IF rest[k].name = p.name THEN p ELSE rest[k]]
             ELSE Append(rest, p)

\* Table.to_dict: the "columns" mapping, in key order
ToDict(cols) == DictOf(cols)

\* Table.from_dict: a Column for every item of the "columns" mapping, in key
\* order; Table.__init__ does not run, no ID column is put in front
FromDict(d) == [k \in 1..Len(d) |-> Column(d[k].name, d[k].type)]

----------------------------------------------------------------------------
(* utils.py: the per-table JSON files are the function data, a file that   *)
(* does not exist is a name outside DOMAIN data.  A file holds a JSON       *)
(* document, an array of objects; a JSON value is [j, n, s]: j is its kind *)
(* (number, true, false, string, null), n the number, s the string.        *)

JsonValue_BoolAsNumber(v) ==
    IF v.t \in {"int", "bool"} THEN [j |-> "number", n |-> v.i, s |-> <<>>]
    ELSE IF v.t = "str" THEN [j |-> "string", n |-> 0, s |-> v.s]
    ELSE [j |-> "null", n |-> 0, s |-> <<>>]

\* json.dump of a field value: bool is tested before int
JsonValue(v) ==
    IF v.t = "bool"
    THEN [j |-> IF v.i = 1 THEN "true" ELSE "false", n |-> 0, s |-> <<>>]
    ELSE IF v.t = "int" THEN [j |-> "number", n |-> v.i, s |-> <<>>]
    ELSE IF v.t = "str" THEN [j |-> "string", n |-> 0, s |-> v.s]
    ELSE [j |-> "null", n |-> 0, s |-> <<>>]

\* json.load of a JSON value
PyValue(x) ==
    IF x.j = "true" THEN BoolV(TRUE)
    ELSE IF x.j = "false" THEN BoolV(FALSE)
    ELSE IF x.j = "number" THEN IntV(x.n)
    ELSE IF x.j = "string" THEN StrV(x.s)
    ELSE NoneV

\* json.dump(data, f): the document written for a list of records
JsonDump(rows) ==
    [k \in 1..Len(rows) |-> [n \in DOMAIN rows[k] |-> JsonValue(rows[k][n])]]

\* json.load(f): the list of records read from a document
JsonLoad(doc) ==
    [k \in 1..Len(doc) |-> [n \in DOMAIN doc[k] |-> PyValue(doc[k][n])]]

\* load_table_data
LoadTableData(files, name) ==
    IF name \in DOMAIN files THEN JsonLoad(files[name]) ELSE <<>>

\* save_table_data
SaveTableData(files, name, rows) ==
    [n \in DOMAIN files \cup {name} |->
        IF n = name THEN JsonDump(rows) ELSE files[n]]

DeleteTableData_Nothing(files, name) == files

\* delete_table_data
DeleteTableData(files, name) == [n \in DOMAIN files \ {name} |-> files[n]]

\* Database.save_tables: table.to_dict() of every table
SaveTables(tbls) == [n \in DOMAIN tbls |-> ToDict(tbls[n])]

\* Database.load_tables: Table.from_dict of every entry of the metadata
LoadTables(meta) == [n \in DOMAIN meta |-> FromDict(meta[n])]

----------------------------------------------------------------------------
(* Inputs *)

\* a column spec "name:type"
ColumnSpec(name, type) == name \o <<Colon>> \o type

TableNames == {s_t, s_u}

SpecLists ==
    { <<ColumnSpec(s_None, s_str)>>,
      <<ColumnSpec(s_ID, s_bool)>>,
      <<ColumnSpec(s_None, s_int), ColumnSpec(s_None, s_str)>>,
      <<ColumnSpec(s_None, s_int), s_None>>,
      <<ColumnSpec(s_None, <<"f">>)>>,
      <<ColumnSpec(<<>>, s_int)>> }

\* table t is created with every column list, table u with one str column
CreateInputs ==
    {<<s_t, specs>> : specs \in SpecLists}
        \cup {<<s_u, <<ColumnSpec(s_None, s_str)>> >>}

RawValues == {s_0, s_None}

ValueLists ==
    {<<>>} \cup {<<v>> : v \in RawValues}
           \cup {<<v, w>> : v \in RawValues, w \in RawValues}

ColumnNames == {s_ID, s_None}

\* a select has no predicate, or a column and a value
Predicates ==
    {<<NoneArg, NoneArg>>}
        \cup {<<Some(c), Some(v)>> : c \in ColumnNames, v \in RawValues}

Answers == {s_YES, s_n}

----------------------------------------------------------------------------
(* The outcome of the last call, as the caller sees it *)

NoArg == NoneArg

\* returned: the caller got a value back (every branch of
\* handle_db_errors.wrapper returns, the body's value or a message), it did
\* not get an exception
Outcome(op, table, wcol, wval, kind, result, ids, hit, loaded) ==
    [op |-> op, table |-> table, wcol |-> wcol, wval |-> wval, kind |-> kind,
     result |-> result, ids |-> ids, hit |-> hit, loaded |-> loaded,
     returned |-> TRUE]

\* a call that raised: handle_db_errors turns the exception into a message
Raised(op, kind) ==
    Outcome(op, <<>>, NoArg, NoArg, kind, <<>>, <<>>, FALSE, FALSE)

\* a call that raised after load_table_data had read the row store
RaisedLoaded(op, kind) ==
    Outcome(op, <<>>, NoArg, NoArg, kind, <<>>, <<>>, FALSE, TRUE)

\* create_cacher: a closure over an empty dict
EmptyCache == [k \in {} |-> <<>>]

ClearSelectCache_Keep(c) == c

\* Database._clear_select_cache: the cacher is replaced by a new one
ClearSelectCache(c) == EmptyCache

Init ==
    /\ tables = [n \in {} |-> <<>>]
    /\ metadata = [n \in {} |-> <<>>]
    /\ data = [n \in {} |-> <<>>]
    /\ cache = EmptyCache
    /\ seen = [q \in {} |-> <<>>]
    /\ last = Raised("init", "ok")

----------------------------------------------------------------------------
(* Database.create_table *)

HasColon(spec) == \E k \in 1..Len(spec) : spec[k] = Colon
FirstColon(spec) ==
    CHOOSE k \in 1..Len(spec) :
        spec[k] = Colon /\ \A j \in 1..(k - 1) : spec[j] # Colon

\* spec.split(":", 1)
SplitName(spec) == SubSeq(spec, 1, FirstColon(spec) - 1)
SplitType(spec) == SubSeq(spec, FirstColon(spec) + 1, Len(spec))

SpecValid_AnyType(spec) ==
    /\ HasColon(spec)
    /\ SplitName(spec) # <<>>
    /\ SplitType(spec) # <<>>

\* the checks of the loop body: none of them raises ValueError
SpecValid(spec) ==
    /\ HasColon(spec)
    /\ SplitName(spec) # <<>>
    /\ SplitType(spec) # <<>>
    /\ SplitType(spec) \in VALID_TYPES

\* the list columns built by the loop
ParseSpecs(specs) ==
    [k \in 1..Len(specs) |-> Column(SplitName(specs[k]), SplitType(specs[k]))]

TableExists_Never(tbls, table_name) == FALSE

\* table_name in self.tables
TableExists(tbls, table_name) == table_name \in DOMAIN tbls

CreateTable(table_name, column_specs) ==
    IF TableExists(tables, table_name)
    THEN /\ last' = Raised("create_table", "TableExistsError")
         /\ UNCHANGED <<tables, metadata, data, cache, seen>>
    ELSE IF \E k \in 1..Len(column_specs) : ~SpecValid(column_specs[k])
    THEN /\ last' = Raised("create_table", "ValueError")
         /\ UNCHANGED <<tables, metadata, data, cache, seen>>
    ELSE LET new == [n \in DOMAIN tables \cup {table_name} |->
                        IF n = table_name
                        THEN NewTable(ParseSpecs(column_specs))
                        ELSE tables[n]]
         IN  /\ tables' = new
             /\ metadata' = SaveTables(new)
             /\ last' = Outcome("create_table", table_name, NoArg, NoArg, "ok",
                                <<>>, <<>>, FALSE, FALSE)
             /\ UNCHANGED <<data, cache, seen>>

----------------------------------------------------------------------------
(* Database.list_tables *)

\* the characters in code point order
CodePoints ==
    Digits \o SubSeq(Upper, 1, 26) \o <<"_">> \o SubSeq(Lower, 1, 26)
        \o <<"CYR_A", "CYR_DE", "cyr_a", "cyr_de">>

\* ord(c)
Ord(c) == CHOOSE k \in 1..Len(CodePoints) : CodePoints[k] = c

\* a < b on str: the first differing character decides, a proper prefix is
\* smaller
StrLess(a, b) ==
    \E k \in 1..(Len(b)) :
        /\ \A j \in 1..(k - 1) : j <= Len(a) /\ a[j] = b[j]
        /\ \/ k = Len(a) + 1
           \/ k <= Len(a) /\ Ord(a[k]) < Ord(b[k])

\* sorted(names)
RECURSIVE SortedSeq(_)
SortedSeq(names) ==
    IF names = {} THEN <<>>
    ELSE LET m == CHOOSE x \in names : \A y \in names : x = y \/ StrLess(x, y)
         IN  <<m>> \o SortedSeq(names \ {m})

ListTables_Descending(tbls) ==
    LET r == SortedSeq(DOMAIN tbls)
    IN  [k \in 1..Len(r) |-> r[Len(r) + 1 - k]]

\* list_tables: the names it reports, in the order of its lines (none when
\* it answers that there are no tables)
ListTables(tbls) == SortedSeq(DOMAIN tbls)

----------------------------------------------------------------------------
(* confirm_action *)

Confirmed_Always(answer) == TRUE

\* confirmation.lower() in ('y', 'yes', cyr_de, cyr_de cyr_a)
Confirmed(answer) ==
    ToLower(answer) \in {<<"y">>, <<"y", "e", "s">>, <<"cyr_de">>, <<"cyr_de", "cyr_a">>}

(* Database.drop_table *)

DropTable(table_name, answer) ==
    IF ~Confirmed(answer)
    THEN /\ last' = Raised("drop_table", "cancelled")
         /\ UNCHANGED <<tables, metadata, data, cache, seen>>
    ELSE IF table_name \notin DOMAIN tables
    THEN /\ last' = Raised("drop_table", "TableNotFoundError")
         /\ UNCHANGED <<tables, metadata, data, cache, seen>>
    ELSE LET new == [n \in DOMAIN tables \ {table_name} |-> tables[n]]
         IN  /\ tables' = new
             /\ data' = DeleteTableData(data, table_name)
             /\ metadata' = SaveTables(new)
             /\ last' = Outcome("drop_table", table_name, NoArg, NoArg, "ok",
                                <<>>, <<>>, FALSE, FALSE)
             /\ UNCHANGED <<cache, seen>>

----------------------------------------------------------------------------
(* Database.insert *)

\* max(record["ID"] for record in table_data) + 1 raises TypeError when an
\* ID is a str: str and int do not compare, and str + 1 is not defined
IdsAddable(rows) == \A k \in 1..Len(rows) : rows[k][s_ID].t # "str"

\* max(record["ID"] for record in table_data)
MaxOf(rows) ==
    CHOOSE m \in {rows[k][s_ID].i : k \in 1..Len(rows)} :
        \A k \in 1..Len(rows) : rows[k][s_ID].i <= m

\* new_id
NewId(rows) == IF rows # <<>> THEN MaxOf(rows) + 1 ELSE 1

ValuesValid_Always(cols, values) == TRUE

\* every value passes _validate_value against its positional column
ValuesValid(cols, values) ==
    \A k \in 1..Len(values) : ValidateValue(values[k], cols[k + 1].type).ok

\* record: {"ID": new_id}, then record[column.name] = validated_value for the
\* values in order (a later assignment to the same key replaces the earlier)
NewRecord(cols, values, new_id) ==
    [n \in {s_ID} \cup {cols[k + 1].name : k \in 1..Len(values)} |->
        IF \E k \in 1..Len(values) : cols[k + 1].name = n
        THEN LET k == CHOOSE j \in 1..Len(values) :
                          /\ cols[j + 1].name = n
                          /\ \A h \in (j + 1)..Len(values) : cols[h + 1].name # n
             IN  ValidateValue(values[k], cols[k + 1].type).v
        ELSE IntV(new_id)]

RECURSIVE SumRows(_, _)
SumRows(files, names) ==
    IF names = {} THEN 0
    ELSE LET n == CHOOSE x \in names : TRUE
         IN  Len(files[n]) + SumRows(files, names \ {n})

TotalRows(files) == SumRows(files, DOMAIN files)

\* MaxRows bounds the records stored in all tables together, MaxId the IDs
\* that insert hands out
Insert(table_name, values) ==
    IF table_name \notin DOMAIN tables
    THEN /\ last' = Raised("insert", "TableNotFoundError")
         /\ UNCHANGED <<tables, metadata, data, cache, seen>>
    ELSE LET cols == tables[table_name]
             table_data == LoadTableData(data, table_name)
         IN
         IF Len(values) # Len(cols) - 1
         THEN /\ last' = Raised("insert", "ValidationError")
              /\ UNCHANGED <<tables, metadata, data, cache, seen>>
         ELSE IF ~IdsAddable(table_data)
         THEN /\ last' = RaisedLoaded("insert", "Exception")
              /\ UNCHANGED <<tables, metadata, data, cache, seen>>
         ELSE IF ~ValuesValid(cols, values)
         THEN /\ last' = RaisedLoaded("insert", "ValidationError")
              /\ UNCHANGED <<tables, metadata, data, cache, seen>>
         ELSE LET new_id == NewId(table_data)
                  record == NewRecord(cols, values, new_id)
              IN  /\ TotalRows(data) < MaxRows
                  /\ new_id <= MaxId
                  /\ data' = SaveTableData(data, table_name,
                                           Append(table_data, record))
                  /\ cache' = ClearSelectCache(cache)
                  /\ seen' = [q \in {} |-> <<>>]
                  /\ last' = Outcome("insert", table_name, NoArg, NoArg, "ok",
                                     <<>>, <<IntV(new_id)>>, FALSE, TRUE)
                  /\ UNCHANGED <<tables, metadata>>

----------------------------------------------------------------------------
(* Database.select *)

\* cache_key
CacheKey(table_name, where_column, where_value) ==
    table_name \o <<Colon>> \o Fmt(where_column) \o <<Colon>> \o Fmt(where_value)

\* record.get(name)
Get(record, name) == IF name \in DOMAIN record THEN record[name] ELSE NoneV

\* [record for record in table_data if record.get(where_column) == typed_value]
RECURSIVE Matching(_, _, _)
Matching(rows, where_column, typed_value) ==
    IF rows = <<>> THEN <<>>
    ELSE IF PyEq(Get(rows[1], where_column), typed_value)
         THEN <<rows[1]>> \o Matching(Tail(rows), where_column, typed_value)
         ELSE Matching(Tail(rows), where_column, typed_value)

\* [record for record in table_data if record.get(where_column) != typed_value]
RECURSIVE NotMatching(_, _, _)
NotMatching(rows, where_column, typed_value) ==
    IF rows = <<>> THEN <<>>
    ELSE IF ~PyEq(Get(rows[1], where_column), typed_value)
         THEN <<rows[1]>> \o NotMatching(Tail(rows), where_column, typed_value)
         ELSE NotMatching(Tail(rows), where_column, typed_value)

\* _execute_select: the kind of its outcome
ExecKind(tbls, table_name, where_column, where_value) ==
    IF table_name \notin DOMAIN tbls THEN "TableNotFoundError"
    ELSE IF ~where_column.some \/ ~where_value.some THEN "ok"
    ELSE IF ~HasColumn(tbls[table_name], where_column.s) THEN "ValidationError"
    ELSE IF ~ValidateValue(where_value.s,
                           GetColumn(tbls[table_name], where_column.s).type).ok
    THEN "ValidationError"
    ELSE "ok"

\* _execute_select: the records it returns when it does not raise
ExecResult(tbls, files, table_name, where_column, where_value) ==
    IF ~where_column.some \/ ~where_value.some
    THEN LoadTableData(files, table_name)
    ELSE Matching(LoadTableData(files, table_name), where_column.s,
                  ValidateValue(where_value.s,
                      GetColumn(tbls[table_name], where_column.s).type).v)

CacheHit_Never(c, key) == FALSE

\* cache_result: key in cache
CacheHit(c, key) == key \in DOMAIN c

\* cache_result: cache[key] = result
CacheStore(c, key, result) ==
    [k \in DOMAIN c \cup {key} |-> IF k = key THEN result ELSE c[k]]

Triple(table_name, where_column, where_value) ==
    [table |-> table_name, wcol |-> where_column, wval |-> where_value]

Remember(q, result) ==
    [x \in DOMAIN seen \cup {q} |-> IF x = q THEN result ELSE seen[x]]

Select_CachesFailure(table_name, where_column, where_value) ==
    LET key == CacheKey(table_name, where_column, where_value)
        q == Triple(table_name, where_column, where_value)
        kind == ExecKind(tables, table_name, where_column, where_value)
    IN
    IF CacheHit(cache, key)
    THEN /\ last' = Outcome("select", table_name, where_column, where_value,
                            "ok", cache[key], <<>>, TRUE, FALSE)
         /\ seen' = Remember(q, cache[key])
         /\ UNCHANGED <<tables, metadata, data, cache>>
    ELSE IF kind # "ok"
    THEN /\ last' = Outcome("select", table_name, NoArg, NoArg, kind, <<>>,
                            <<>>, FALSE, kind = "ValidationError")
         /\ cache' = CacheStore(cache, key, <<>>)
         /\ UNCHANGED <<tables, metadata, data, seen>>
    ELSE LET result == ExecResult(tables, data, table_name, where_column,
                                  where_value)
         IN  /\ Cardinality(DOMAIN cache \cup {key}) <= MaxCache
             /\ cache' = CacheStore(cache, key, result)
             /\ seen' = Remember(q, result)
             /\ last' = Outcome("select", table_name, where_column,
                                where_value, "ok", result, <<>>, FALSE, TRUE)
             /\ UNCHANGED <<tables, metadata, data>>

\* Database.select: cache_result(cache_key, _execute_select) under
\* handle_db_errors; an exception of _execute_select leaves cache_result
\* before cache[key] = result
Select(table_name, where_column, where_value) ==
    LET key == CacheKey(table_name, where_column, where_value)
        q == Triple(table_name, where_column, where_value)
        kind == ExecKind(tables, table_name, where_column, where_value)
    IN
    IF CacheHit(cache, key)
    THEN /\ last' = Outcome("select", table_name, where_column, where_value,
                            "ok", cache[key], <<>>, TRUE, FALSE)
         /\ seen' = Remember(q, cache[key])
         /\ UNCHANGED <<tables, metadata, data, cache>>
    ELSE IF kind # "ok"
    THEN /\ last' = Outcome("select", table_name, NoArg, NoArg, kind, <<>>,
                            <<>>, FALSE, kind = "ValidationError")
         /\ UNCHANGED <<tables, metadata, data, cache, seen>>
    ELSE LET result == ExecResult(tables, data, table_name, where_column,
                                  where_value)
         IN  /\ Cardinality(DOMAIN cache \cup {key}) <= MaxCache
             /\ cache' = CacheStore(cache, key, result)
             /\ seen' = Remember(q, result)
             /\ last' = Outcome("select", table_name, where_column,
                                where_value, "ok", result, <<>>, FALSE, TRUE)
             /\ UNCHANGED <<tables, metadata, data>>

----------------------------------------------------------------------------
(* Database.update *)

\* record[name] = value
SetField(record, name, value) ==
    [n \in DOMAIN record \cup {name} |-> IF n = name THEN value ELSE record[n]]

\* the loop over table_data: a matching record gets record[set_column] =
\* typed_set_value
UpdateRows(rows, set_column, typed_set_value, where_column, typed_where_value) ==
    [k \in 1..Len(rows) |->
        IF PyEq(Get(rows[k], where_column), typed_where_value)
        THEN SetField(rows[k], set_column, typed_set_value)
        ELSE rows[k]]

\* [record["ID"] for record in rows]
IdsOf(rows) == [k \in 1..Len(rows) |-> rows[k][s_ID]]

\* updated_ids: record["ID"] of every matching record, read after the
\* assignment to record[set_column]
UpdatedIds(rows, set_column, typed_set_value, where_column, typed_where_value) ==
    LET m == Matching(rows, where_column, typed_where_value)
    IN  [k \in 1..Len(m) |-> SetField(m[k], set_column, typed_set_value)[s_ID]]

UpdateSaved_Always(files, table_name, rows, updated_count) ==
    SaveTableData(files, table_name, rows)

\* the data files once update is past its check of updated_count: it raises
\* RecordNotFoundError before save_table_data when nothing matched
UpdateSaved(files, table_name, rows, updated_count) ==
    IF updated_count = 0 THEN files
    ELSE SaveTableData(files, table_name, rows)

Update(table_name, set_column, set_value, where_column, where_value) ==
    IF table_name \notin DOMAIN tables
    THEN /\ last' = Raised("update", "TableNotFoundError")
         /\ UNCHANGED <<tables, metadata, data, cache, seen>>
    ELSE LET cols == tables[table_name] IN
         IF ~HasColumn(cols, set_column) \/ ~HasColumn(cols, where_column)
         THEN /\ last' = Raised("update", "ValidationError")
              /\ UNCHANGED <<tables, metadata, data, cache, seen>>
         ELSE LET table_data == LoadTableData(data, table_name)
                  w == ValidateValue(where_value, GetColumn(cols, where_column).type)
                  v == ValidateValue(set_value, GetColumn(cols, set_column).type)
              IN
              IF ~w.ok \/ ~v.ok
              THEN /\ last' = RaisedLoaded("update", "ValidationError")
                   /\ UNCHANGED <<tables, metadata, data, cache, seen>>
              ELSE IF Matching(table_data, where_column, w.v) = <<>>
              THEN /\ last' = RaisedLoaded("update", "RecordNotFoundError")
                   /\ data' = UpdateSaved(data, table_name,
                                  UpdateRows(table_data, set_column, v.v,
                                             where_column, w.v), 0)
                   /\ UNCHANGED <<tables, metadata, cache, seen>>
              ELSE /\ data' = UpdateSaved(data, table_name,
                                  UpdateRows(table_data, set_column, v.v,
                                             where_column, w.v),
                                  Len(Matching(table_data, where_column, w.v)))
                   /\ cache' = ClearSelectCache(cache)
                   /\ seen' = [q \in {} |-> <<>>]
                   /\ last' = Outcome("update", table_name, Some(where_column),
                                      Some(where_value), "ok", <<>>,
                                      UpdatedIds(table_data, set_column, v.v,
                                                 where_column, w.v),
                                      FALSE, TRUE)
                   /\ UNCHANGED <<tables, metadata>>

----------------------------------------------------------------------------
(* Database.delete *)

Delete(table_name, where_column, where_value, answer) ==
    IF ~Confirmed(answer)
    THEN /\ last' = Raised("delete", "cancelled")
         /\ UNCHANGED <<tables, metadata, data, cache, seen>>
    ELSE IF table_name \notin DOMAIN tables
    THEN /\ last' = Raised("delete", "TableNotFoundError")
         /\ UNCHANGED <<tables, metadata, data, cache, seen>>
    ELSE LET cols == tables[table_name] IN
         IF ~HasColumn(cols, where_column)
         THEN /\ last' = Raised("delete", "ValidationError")
              /\ UNCHANGED <<tables, metadata, data, cache, seen>>
         ELSE LET table_data == LoadTableData(data, table_name)
                  w == ValidateValue(where_value, GetColumn(cols, where_column).type)
              IN
              IF ~w.ok
              THEN /\ last' = RaisedLoaded("delete", "ValidationError")
                   /\ UNCHANGED <<tables, metadata, data, cache, seen>>
              ELSE IF Matching(table_data, where_column, w.v) = <<>>
              THEN /\ last' = RaisedLoaded("delete", "RecordNotFoundError")
                   /\ UNCHANGED <<tables, metadata, data, cache, seen>>
              ELSE /\ data' = SaveTableData(data, table_name,
                                  NotMatching(table_data, where_column, w.v))
                   /\ cache' = ClearSelectCache(cache)
                   /\ seen' = [q \in {} |-> <<>>]
                   /\ last' = Outcome("delete", table_name, Some(where_column),
                                      Some(where_value), "ok", <<>>,
                                      IdsOf(Matching(table_data, where_column, w.v)),
                                      FALSE, TRUE)
                   /\ UNCHANGED <<tables, metadata>>

----------------------------------------------------------------------------

Next ==
    \/ \E in \in CreateInputs : CreateTable(in[1], in[2])
    \/ \E n \in TableNames, answer \in Answers : DropTable(n, answer)
    \/ \E n \in TableNames, values \in ValueLists : Insert(n, values)
    \/ \E n \in TableNames, p \in Predicates : Select(n, p[1], p[2])
    \/ \E n \in TableNames, sc \in ColumnNames, sv \in RawValues,
          wc \in ColumnNames, wv \in RawValues : Update(n, sc, sv, wc, wv)
    \/ \E n \in TableNames, wc \in ColumnNames, wv \in RawValues,
          answer \in Answers : Delete(n, wc, wv, answer)

Spec == Init /\ [][Next]_vars

----------------------------------------------------------------------------
(* Database._validate_value on its own: every raw text against every type *)

\* str.upper(), one character
UpperChar(c) ==
    IF \E k \in 1..Len(Lower) : Lower[k] = c
    THEN Upper[CHOOSE k \in 1..Len(Lower) : Lower[k] = c]
    ELSE c

\* the spellings of a word in lower and upper case letters
RECURSIVE CaseVariants(_)
CaseVariants(w) ==
    IF w = <<>> THEN {<<>>}
    ELSE {<<c>> \o r : c \in {w[1], UpperChar(w[1])}, r \in CaseVariants(Tail(w))}

BoolWords ==
    {<<"t", "r", "u", "e">>, <<"1">>, <<"y", "e", "s">>,
     <<"f", "a", "l", "s", "e">>, <<"0">>, <<"n", "o">>}

\* raw texts: the bool words in every spelling, and texts that are near
\* them, int literals and texts around double quotes
RawTexts ==
    UNION {CaseVariants(w) : w \in BoolWords}
    \cup {<<>>, <<"t">>, <<"y">>, <<"t", "r", "u">>, <<"t", "r", "u", "e", "e">>,
          <<"o", "n">>, <<"y", "e", "s", " ">>, <<"2">>, <<"1", "0">>,
          <<"0", "1">>, <<"-", "1">>, <<"+", "0">>, <<"-">>, <<"1", "a">>,
          s_None,
          <<Quote>>, <<Quote, Quote>>, <<Quote, "a", Quote>>, <<Quote, "a">>,
          <<"a", Quote>>, <<"a", Quote, "b">>, <<Quote, "1", Quote>>,
          <<Quote, Quote, Quote>>, <<Quote, "y", "e", "s", Quote>>}

ColumnTypes == {s_int, s_str, s_bool}

\* one call of _validate_value(value, expected_type); last holds the type
\* in wcol, the raw text in wval and the value returned in result
Validate(value, expected_type) ==
    LET r == ValidateValue(value, expected_type)
    IN  /\ last' = Outcome("_validate_value", <<>>, Some(expected_type),
                           Some(value),
                           IF r.ok THEN "ok" ELSE "ValidationError",
                           IF r.ok THEN <<r.v>> ELSE <<>>, <<>>, FALSE, FALSE)
        /\ UNCHANGED <<tables, metadata, data, cache, seen>>

NextCoerce == \E value \in RawTexts, type \in ColumnTypes : Validate(value, type)

SpecCoerce == Init /\ [][NextCoerce]_vars

----------------------------------------------------------------------------
(* utils.py on its own: save_table_data and load_table_data of any list of *)
(* records, and a store that fails under a core operation                  *)

\* records as the operations store them: int, bool and str fields
StoredRecords ==
    { (s_ID :> IntV(1)),
      (s_ID :> BoolV(TRUE)),
      (s_ID :> IntV(0)) @@ (s_None :> StrV(<<"1">>)) }

\* the lists of at most MaxSaved records
RowLists ==
    UNION {[1..len -> StoredRecords] : len \in 0..MaxSaved}

\* save_table_data(table_name, data); last holds the list handed over
SaveRows(table_name, rows) ==
    /\ data' = SaveTableData(data, table_name, rows)
    /\ last' = Outcome("save_table_data", table_name, NoArg, NoArg, "ok", rows,
                       <<>>, FALSE, FALSE)
    /\ UNCHANGED <<tables, metadata, cache, seen>>

\* load_table_data(table_name); last holds the list returned
LoadRows(table_name) ==
    /\ last' = Outcome("load_table_data", table_name, NoArg, NoArg, "ok",
                       LoadTableData(data, table_name), <<>>, FALSE, TRUE)
    /\ UNCHANGED <<tables, metadata, data, cache, seen>>

\* the exceptions open(), json.load and json.dump raise when the store
\* fails, each with its classes from the most derived on
StoreErrors ==
    { <<"PermissionError", "OSError", "Exception">>,
      <<"IsADirectoryError", "OSError", "Exception">>,
      <<"FileNotFoundError", "OSError", "Exception">>,
      <<"OSError", "Exception">>,
      <<"JSONDecodeError", "ValueError", "Exception">>,
      <<"UnicodeDecodeError", "UnicodeError", "ValueError", "Exception">> }

\* the except clauses of handle_db_errors.wrapper, in their order
ExceptClauses ==
    <<"FileNotFoundError", "TableExistsError", "TableNotFoundError",
      "ValidationError", "RecordNotFoundError", "KeyError", "ValueError",
      "DatabaseError", "Exception">>

Handles(k, classes) == \E c \in 1..Len(classes) : classes[c] = ExceptClauses[k]

\* the clause that catches an exception: the first one that names one of
\* its classes
CaughtAs(classes) ==
    ExceptClauses[CHOOSE k \in 1..Len(ExceptClauses) :
                      /\ Handles(k, classes)
                      /\ \A j \in 1..(k - 1) : ~Handles(j, classes)]

\* the core operations that read or write the store
CoreOperations ==
    {"create_table", "drop_table", "insert", "select", "update", "delete",
     "get_table_info"}

\* a core operation whose load or save raises: the wrapper returns the
\* message of the clause that catches the exception
StoreFails(op, classes) ==
    /\ last' = Raised(op, CaughtAs(classes))
    /\ UNCHANGED <<tables, metadata, data, cache, seen>>

NextStore ==
    \/ \E n \in TableNames, rows \in RowLists : SaveRows(n, rows)
    \/ \E n \in TableNames : LoadRows(n)
    \/ \E op \in CoreOperations, classes \in StoreErrors : StoreFails(op, classes)

SpecStore == Init /\ [][NextStore]_vars

----------------------------------------------------------------------------
(* engine.run: the command loop *)

w_exit == <<"e", "x", "i", "t">>
w_help == <<"h", "e", "l", "p">>
w_create_table == <<"c", "r", "e", "a", "t", "e", "_", "t", "a", "b", "l", "e">>
w_drop_table == <<"d", "r", "o", "p", "_", "t", "a", "b", "l", "e">>
w_list_tables == <<"l", "i", "s", "t", "_", "t", "a", "b", "l", "e", "s">>
w_insert == <<"i", "n", "s", "e", "r", "t">>
w_select == <<"s", "e", "l", "e", "c", "t">>
w_update == <<"u", "p", "d", "a", "t", "e">>
w_delete == <<"d", "e", "l", "e", "t", "e">>
w_info == <<"i", "n", "f", "o">>

\* DatabaseCommandRegistry._commands: the names of the registered commands
DatabaseCommands ==
    {w_create_table, w_drop_table, w_list_tables, w_insert, w_select,
     w_update, w_delete, w_info}

\* args[0] of the lines that are entered: every command name, exit and
\* select in upper case, and a word that is no command
FirstWords ==
    DatabaseCommands \cup
        {w_exit, w_help, <<"E", "X", "I", "T">>,
         <<"S", "E", "L", "E", "C", "T">>, <<"x">>}

\* the command arguments that are entered: one table name, one valid and
\* one invalid column list, a where column the table does not declare (n)
\* and a where value that is no int (None)
LoopNames == {s_t}
LoopSpecLists == {<<ColumnSpec(s_None, s_str)>>, <<ColumnSpec(<<>>, s_int)>>}
LoopValueLists == {<<>>, <<s_0>>}
LoopPredicates ==
    {<<NoneArg, NoneArg>>, <<Some(s_None), Some(s_0)>>,
     <<Some(s_ID), Some(s_None)>>, <<Some(s_n), Some(s_0)>>}

\* a pass of the loop that called no core operation, or one whose result is
\* a text only
LoopOutcome(op, table, kind, loaded) ==
    Outcome(op, table, NoArg, NoArg, kind, <<>>, <<>>, FALSE, loaded)

\* SelectCommand.execute, given what db.select returned: the records of a
\* success, or the message handle_db_errors made of a failure.  It returns
\* a text for no records, a text when get_table raises TableNotFoundError,
\* and the rendered table for records; a message is not empty, so with the
\* table present the loop over its characters calls record.get on a str and
\* raises AttributeError, which no except clause of execute names.
ExecuteSelect(o, tbls) ==
    IF o.kind = "ok" /\ o.result = <<>> THEN "text"
    ELSE IF o.table \notin DOMAIN tbls THEN "text"
    ELSE IF o.kind = "ok" THEN "text"
    ELSE "AttributeError"

\* command.execute(db) of the pass that last describes: every other command
\* returns the text its core operation returned under handle_db_errors
Execute(o, tbls) ==
    IF o.op = "select" THEN ExecuteSelect(o, tbls) ELSE "text"

\* the number of results or error texts the pass printed: none for a blank
\* line, for exit, and when execute raised past print(result)
Printed(o, tbls) ==
    IF o.op \in {"blank", "exit"} \/ Execute(o, tbls) # "text" THEN 0 ELSE 1

\* the loop is at its prompt: it has not left through break, and no
\* exception has left run()
Prompting ==
    last.op # "exit" /\ Execute(last, tables) = "text"

\* if not user_input.strip(): continue
BlankLine ==
    /\ Prompting
    /\ last' = LoopOutcome("blank", <<>>, "ok", FALSE)
    /\ UNCHANGED <<tables, metadata, data, cache, seen>>

\* shlex.split raises ValueError (an unbalanced quote): one message
UnbalancedLine ==
    /\ Prompting
    /\ last' = LoopOutcome("shlex", <<>>, "ValueError", FALSE)
    /\ UNCHANGED <<tables, metadata, data, cache, seen>>

\* command_name == "exit": break
ExitLine(word) ==
    /\ Prompting
    /\ ToLower(word) = w_exit
    /\ last' = LoopOutcome("exit", <<>>, "ok", FALSE)
    /\ UNCHANGED <<tables, metadata, data, cache, seen>>

\* command_name == "help": print_help()
HelpLine(word) ==
    /\ Prompting
    /\ ToLower(word) = w_help
    /\ last' = LoopOutcome("help", <<>>, "ok", FALSE)
    /\ UNCHANGED <<tables, metadata, data, cache, seen>>

\* the else branch: the word is no command
UnknownLine(word) ==
    /\ Prompting
    /\ ToLower(word) \notin DatabaseCommands \cup {w_exit, w_help}
    /\ last' = LoopOutcome("unknown", <<>>, "ok", FALSE)
    /\ UNCHANGED <<tables, metadata, data, cache, seen>>

\* parse_command raises InvalidCommandError (from_input refuses the
\* arguments): print(str(e))
InvalidLine(word) ==
    /\ Prompting
    /\ ToLower(word) \in DatabaseCommands
    /\ last' = LoopOutcome("parse_command", <<>>, "InvalidCommandError", FALSE)
    /\ UNCHANGED <<tables, metadata, data, cache, seen>>

\* the lines whose command parses: command.execute(db), print(result)
CreateTableLine(word, table_name, column_specs) ==
    /\ Prompting
    /\ ToLower(word) = w_create_table
    /\ CreateTable(table_name, column_specs)

DropTableLine(word, table_name, answer) ==
    /\ Prompting
    /\ ToLower(word) = w_drop_table
    /\ DropTable(table_name, answer)

ListTablesLine(word) ==
    /\ Prompting
    /\ ToLower(word) = w_list_tables
    /\ last' = Outcome("list_tables", <<>>, NoArg, NoArg, "ok",
                       ListTables(tables), <<>>, FALSE, FALSE)
    /\ UNCHANGED <<tables, metadata, data, cache, seen>>

InsertLine(word, table_name, values) ==
    /\ Prompting
    /\ ToLower(word) = w_insert
    /\ Insert(table_name, values)

SelectLine(word, table_name, where_column, where_value) ==
    /\ Prompting
    /\ ToLower(word) = w_select
    /\ Select(table_name, where_column, where_value)

UpdateLine(word, table_name, set_column, set_value, where_column, where_value) ==
    /\ Prompting
    /\ ToLower(word) = w_update
    /\ Update(table_name, set_column, set_value, where_column, where_value)

DeleteLine(word, table_name, where_column, where_value, answer) ==
    /\ Prompting
    /\ ToLower(word) = w_delete
    /\ Delete(table_name, where_column, where_value, answer)

\* Database.get_table_info under InfoCommand.execute
InfoLine(word, table_name) ==
    /\ Prompting
    /\ ToLower(word) = w_info
    /\ last' = IF table_name \in DOMAIN tables
               THEN LoopOutcome("get_table_info", table_name, "ok", TRUE)
               ELSE LoopOutcome("get_table_info", table_name,
                                "TableNotFoundError", FALSE)
    /\ UNCHANGED <<tables, metadata, data, cache, seen>>

NextLoop ==
    \/ BlankLine
    \/ UnbalancedLine
    \/ \E word \in FirstWords : ExitLine(word)
    \/ \E word \in FirstWords : HelpLine(word)
    \/ \E word \in FirstWords : UnknownLine(word)
    \/ \E word \in FirstWords : InvalidLine(word)
    \/ \E word \in FirstWords, n \in LoopNames, specs \in LoopSpecLists :
          CreateTableLine(word, n, specs)
    \/ \E word \in FirstWords, n \in LoopNames, answer \in Answers :
          DropTableLine(word, n, answer)
    \/ \E word \in FirstWords : ListTablesLine(word)
    \/ \E word \in FirstWords, n \in LoopNames, values \in LoopValueLists :
          InsertLine(word, n, values)
    \/ \E word \in FirstWords, n \in LoopNames, p \in LoopPredicates :
          SelectLine(word, n, p[1], p[2])
    \/ \E word \in FirstWords, n \in LoopNames, sv \in RawValues, wv \in RawValues :
          UpdateLine(word, n, s_None, sv, s_None, wv)
    \/ \E word \in FirstWords, n \in LoopNames, wv \in RawValues, answer \in Answers :
          DeleteLine(word, n, s_None, wv, answer)
    \/ \E word \in FirstWords, n \in LoopNames : InfoLine(word, n)

SpecLoop == Init /\ [][NextLoop]_vars

----------------------------------------------------------------------------
(* Properties *)

Writes == {"insert", "update", "delete"}

\* the triple of the select that last describes
LastTriple(o) == Triple(o.table, o.wcol, o.wval)

\* the Python type of a value, as a column type
TypeName(v) ==
    IF v.t = "int" THEN s_int
    ELSE IF v.t = "str" THEN s_str
    ELSE IF v.t = "bool" THEN s_bool
    ELSE <<>>

\* no other triple selected since the cache was last emptied has the cache
\* key of triple q
KeyUnshared(q) ==
    \A x \in DOMAIN seen :
        x # q => CacheKey(x.table, x.wcol, x.wval) # CacheKey(q.table, q.wcol, q.wval)

\* C1: a select that returns records returns what evaluating its query
\* against the current schema set and the current row store returns; no
\* result computed from data that has since changed (or from a table that
\* has since been dropped or re-created) is served.  Stated for the selects
\* whose cache key no other selected triple shares (C7 is about those).
C1_SelectSeesCurrentData ==
    (last.op = "select" /\ last.kind = "ok" /\ KeyUnshared(LastTriple(last))) =>
        /\ ExecKind(tables, last.table, last.wcol, last.wval) = "ok"
        /\ last.result = ExecResult(tables, data, last.table, last.wcol,
                                    last.wval)

\* C2: a select on a table name that is absent from the schema set fails
\* with TableNotFoundError and returns no records.
C2_AbsentTableSelectFails ==
    (last.op = "select" /\ last.table \notin DOMAIN tables) =>
        (last.kind = "TableNotFoundError" /\ last.result = <<>>)

\* the column names of a table are pairwise distinct
DistinctNames(cols) ==
    \A i, j \in 1..Len(cols) : i # j => cols[i].name # cols[j].name

\* C3: an update leaves the ID of every stored record as it was, whatever
\* the set column is.  Stated for tables whose column names are distinct
\* (C5 is about the others).
C3_UpdateKeepsIds ==
    [][(last'.op = "update" /\ \A n \in DOMAIN tables : DistinctNames(tables[n])) =>
          \A n \in DOMAIN data :
              /\ n \in DOMAIN data'
              /\ IdsOf(LoadTableData(data', n)) = IdsOf(LoadTableData(data, n))]_vars

\* C4: a successful insert appends one record to the table's stored
\* sequence, and that record's ID is 1 for an empty table and otherwise the
\* largest stored ID plus 1.
C4_InsertAssignsNextId ==
    [][(last'.op = "insert" /\ last'.kind = "ok") =>
          LET n == last'.table
              old == LoadTableData(data, n)
              new == LoadTableData(data', n)
          IN  /\ Len(new) = Len(old) + 1
              /\ SubSeq(new, 1, Len(old)) = old
              /\ new[Len(old) + 1][s_ID] =
                     IntV(IF old = <<>> THEN 1 ELSE MaxOf(old) + 1)]_vars

\* C5: the column names of every table are pairwise distinct.
C5_ColumnNamesDistinct ==
    \A n \in DOMAIN tables : DistinctNames(tables[n])

\* C6: every stored record's value for a non-ID column of its table has the
\* type get_column declares for that name.
C6_ValuesHaveColumnType ==
    \A n \in DOMAIN tables :
        \A r \in 1..Len(LoadTableData(data, n)) :
            \A k \in 1..Len(tables[n]) :
                LET name == tables[n][k].name
                    record == LoadTableData(data, n)[r]
                IN  name # s_ID =>
                        /\ name \in DOMAIN record
                        /\ TypeName(record[name]) = GetColumn(tables[n], name).type

\* C7: a select is served from the cache only if the same (table,
\* whereColumn, whereValue) triple was selected since the cache was last
\* emptied: two different triples never share a cache entry.
C7_CacheKeyedByTriple ==
    [][(last'.op = "select" /\ last'.hit) => LastTriple(last') \in DOMAIN seen]_vars

\* C8: a successful insert, update or delete leaves the select cache empty,
\* and the select that follows it, on any table, is not served from the
\* cache and loads the row store when it succeeds.
C8_WriteEmptiesCache ==
    [][/\ (last'.op \in Writes /\ last'.kind = "ok") => cache' = EmptyCache
       /\ (last.op \in Writes /\ last.kind = "ok" /\ last'.op = "select") =>
              (~last'.hit /\ (last'.kind = "ok" => last'.loaded))]_vars

\* a table other than the written one has a stored record when the write
\* empties the cache
C8_Witness ==
    /\ last.op \in Writes /\ last.kind = "ok" /\ last.table = s_t
    /\ s_u \in DOMAIN data /\ data[s_u] # <<>>
    /\ cache = EmptyCache

\* C9: a successful select with a triple that was already selected
\* successfully since the last insert, update or delete returns the result of
\* that earlier select and does not load the row store.
C9_RepeatedSelectIsCached ==
    [][(last'.op = "select" /\ last'.kind = "ok"
            /\ LastTriple(last') \in DOMAIN seen) =>
          /\ last'.result = seen[LastTriple(last')]
          /\ last'.hit
          /\ ~last'.loaded]_vars

\* a repeated select with a predicate was served a non-empty result
C9_Witness ==
    /\ last.op = "select" /\ last.kind = "ok" /\ last.hit
    /\ last.wcol.some
    /\ last.result # <<>>
    /\ LastTriple(last) \in DOMAIN seen
    /\ seen[LastTriple(last)] = last.result

\* C10: an update or delete that fails leaves the schema set, the metadata,
\* every stored record sequence and the select cache as they were.
C10_FailedWriteChangesNothing ==
    [][(last'.op \in {"update", "delete"} /\ last'.kind \notin {"ok", "cancelled"})
          => UNCHANGED <<tables, metadata, data, cache>>]_vars

\* an update that matched no record of a non-empty table, with a cached
\* select in place
C10_Witness ==
    /\ last.op = "update" /\ last.kind = "RecordNotFoundError"
    /\ cache # EmptyCache
    /\ \E n \in DOMAIN data : data[n] # <<>>

\* C11: an insert with the right number of values, one of which fails
\* coercion against its positional column's type, does not succeed and leaves
\* every stored record sequence, the schema set, the metadata and the select
\* cache as they were.
C11_FailedCoercionWritesNothing ==
    [][\A n \in TableNames, values \in ValueLists :
          (/\ last'.op = "insert"
           /\ n \in DOMAIN tables
           /\ Len(values) = Len(tables[n]) - 1
           /\ \E k \in 1..Len(values) :
                  ~ValidateValue(values[k], tables[n][k + 1].type).ok
           /\ Insert(n, values))
          => (/\ last'.kind # "ok"
              /\ UNCHANGED <<tables, metadata, data, cache>>)]_vars

\* an insert failed on a value, after the row store was loaded, with stored
\* records and a cached select in place
C11_Witness ==
    /\ last = RaisedLoaded("insert", "ValidationError")
    /\ cache # EmptyCache
    /\ \E n \in DOMAIN data : data[n] # <<>>

\* a column spec is a non-empty name without ':', then ':', then one of the
\* types int, str, bool
WellFormedSpec(spec) ==
    \E k \in 2..Len(spec) :
        /\ spec[k] = Colon
        /\ \A j \in 1..(k - 1) : spec[j] # Colon
        /\ SubSeq(spec, k + 1, Len(spec)) \in {s_int, s_str, s_bool}

\* C12: a create_table whose list holds a column spec that is not well
\* formed (no ':', empty name, empty type, or a type outside int, str, bool),
\* wherever it stands in the list, does not succeed, adds no table to the
\* schema set and does not write the metadata.
C12_InvalidSpecCreatesNothing ==
    [][\A in \in CreateInputs :
          (/\ last'.op = "create_table"
           /\ \E k \in 1..Len(in[2]) : ~WellFormedSpec(in[2][k])
           /\ CreateTable(in[1], in[2]))
          => (/\ last'.kind \in {"ValueError", "TableExistsError"}
              /\ UNCHANGED <<tables, metadata, data, cache>>)]_vars

\* a create_table was refused for its specs while another table exists
C12_Witness ==
    /\ last = Raised("create_table", "ValueError")
    /\ s_t \notin DOMAIN tables
    /\ s_u \in DOMAIN tables

\* C13: a create_table with a name that is in the schema set fails with
\* TableExistsError, whatever its specs are, and leaves every table's column
\* sequence, every stored record sequence and the metadata as they were.
C13_ExistingNameIsRefused ==
    [][\A in \in CreateInputs :
          (/\ last'.op = "create_table"
           /\ in[1] \in DOMAIN tables
           /\ CreateTable(in[1], in[2]))
          => (/\ last' = Raised("create_table", "TableExistsError")
              /\ UNCHANGED <<tables, metadata, data>>)]_vars

\* a create_table was refused for its name while a table has stored records
C13_Witness ==
    /\ last = Raised("create_table", "TableExistsError")
    /\ \E n \in DOMAIN tables : n \in DOMAIN data /\ data[n] # <<>>

\* what a drop_table of table n that went through leaves behind: the name is
\* gone from the schema set, the row stores and the metadata, and every other
\* table has the schema, the records and the metadata entry it had
DropEffect(n) ==
    /\ last'.kind = "ok"
    /\ DOMAIN tables' = DOMAIN tables \ {n}
    /\ DOMAIN metadata' = DOMAIN tables'
    /\ n \notin DOMAIN data'
    /\ \A m \in DOMAIN tables' : tables'[m] = tables[m] /\ metadata'[m] = metadata[m]
    /\ \A m \in DOMAIN data \ {n} : m \in DOMAIN data' /\ data'[m] = data[m]

\* a drop_table of an absent table n fails with TableNotFoundError and
\* changes nothing
DropRefused ==
    /\ last'.kind = "TableNotFoundError"
    /\ UNCHANGED <<tables, metadata, data, cache>>

\* C14 as stated: every drop_table on an absent name fails with
\* TableNotFoundError and changes nothing, and a confirmed drop_table on a
\* present name removes the table from the schema set, the row stores and the
\* metadata and leaves every other table as it was.
C14_AsStated ==
    [][\A n \in TableNames, answer \in Answers :
          (last'.op = "drop_table" /\ DropTable(n, answer)) =>
              IF n \notin DOMAIN tables THEN DropRefused
              ELSE Confirmed(answer) => DropEffect(n)]_vars

\* C14, amended: a confirmed drop_table on an absent name fails with
\* TableNotFoundError and changes nothing (an unconfirmed one is cancelled
\* before the name is looked up), and a confirmed drop_table on a present
\* name removes the table from the schema set, the row stores and the
\* metadata and leaves every other table as it was.
C14_ConfirmedDrop ==
    [][\A n \in TableNames, answer \in Answers :
          (last'.op = "drop_table" /\ Confirmed(answer) /\ DropTable(n, answer)) =>
              IF n \notin DOMAIN tables THEN DropRefused ELSE DropEffect(n)]_vars

\* table t was dropped while table u has stored records
C14_Witness ==
    /\ last.op = "drop_table" /\ last.kind = "ok" /\ last.table = s_t
    /\ s_u \in DOMAIN tables
    /\ s_u \in DOMAIN data /\ data[s_u] # <<>>
    /\ s_t \notin DOMAIN tables /\ s_t \notin DOMAIN data /\ s_t \notin DOMAIN metadata

\* C15: after a successful create_table or drop_table, a Database
\* constructed from the persisted metadata has the table names of the
\* in-memory schema set and, for every table, its column sequence: the same
\* names and types in the same order, ID:int first.
C15_ReloadGivesSameSchema ==
    (last.op \in {"create_table", "drop_table"} /\ last.kind = "ok") =>
        /\ LoadTables(metadata) = tables
        /\ \A n \in DOMAIN tables :
               LoadTables(metadata)[n][1] = Column(s_ID, s_int)

\* C16: a create_table with a new name and a list of well-formed column
\* specs succeeds, and the table get_table then returns has the column ID of
\* type int first, followed by the caller's columns, names and types, in the
\* order given.
C16_IdFirstThenCallerColumns ==
    [][\A in \in CreateInputs :
          (/\ last'.op = "create_table"
           /\ in[1] \notin DOMAIN tables
           /\ \A k \in 1..Len(in[2]) : WellFormedSpec(in[2][k])
           /\ CreateTable(in[1], in[2]))
          => (/\ last'.kind = "ok"
              /\ in[1] \in DOMAIN tables'
              /\ Len(tables'[in[1]]) = Len(in[2]) + 1
              /\ tables'[in[1]][1] = [name |-> s_ID, type |-> s_int]
              /\ \A k \in 1..Len(in[2]) :
                     tables'[in[1]][k + 1] = [name |-> SplitName(in[2][k]),
                                              type |-> SplitType(in[2][k])])]_vars

\* a table was created from two column specs
C16_Witness ==
    /\ last.op = "create_table" /\ last.kind = "ok"
    /\ last.table \in DOMAIN tables
    /\ Len(tables[last.table]) = 3
    /\ tables[last.table][1] = [name |-> s_ID, type |-> s_int]
    /\ tables[last.table][2].type = s_int
    /\ tables[last.table][3].type = s_str

\* the records of rows whose field c is the value v: the same type and the
\* same value, in the order of rows
ExactRows(rows, c, v) ==
    SelectSeq(rows, LAMBDA r : c \in DOMAIN r /\ r[c] = v)

\* the records of rows whose field c is not the value v, in the order of rows
OtherRows(rows, c, v) ==
    SelectSeq(rows, LAMBDA r : ~(c \in DOMAIN r /\ r[c] = v))

\* C17: a select on a present table that is not served from the cache
\* returns, without a predicate, all stored records in stored order; with a
\* predicate on a column the table does not declare it fails with
\* ValidationError; with a predicate on a declared column and a where-value
\* that coerces to the column's type it returns exactly the stored records
\* whose field is that coerced value, in stored order.
C17_SelectOnMiss ==
    [][\A n \in TableNames, p \in Predicates :
          (/\ last'.op = "select"
           /\ n \in DOMAIN tables
           /\ CacheKey(n, p[1], p[2]) \notin DOMAIN cache
           /\ Select(n, p[1], p[2]))
          => IF ~p[1].some
             THEN last'.kind = "ok" /\ last'.result = LoadTableData(data, n)
             ELSE IF \A k \in 1..Len(tables[n]) : tables[n][k].name # p[1].s
             THEN last'.kind = "ValidationError"
             ELSE LET w == ValidateValue(p[2].s,
                                         GetColumn(tables[n], p[1].s).type)
                  IN  w.ok =>
                          /\ last'.kind = "ok"
                          /\ last'.result =
                                 ExactRows(LoadTableData(data, n), p[1].s, w.v)]_vars

\* C18: predicate matching in select, update and delete is typed: every
\* record a select returns on a miss has, in the where-column, a value of the
\* type and the value of the coerced where-value, and an update or a delete
\* matches no more records than have that value in that column.
C18_MatchIsTyped ==
    [][/\ \A n \in TableNames, p \in Predicates :
              (/\ last'.op = "select" /\ last'.kind = "ok" /\ ~last'.hit
               /\ p[1].some
               /\ Select(n, p[1], p[2]))
              => LET w == ValidateValue(p[2].s,
                                        GetColumn(tables[n], p[1].s).type).v
                 IN  \A k \in 1..Len(last'.result) :
                         /\ Get(last'.result[k], p[1].s).t = w.t
                         /\ Get(last'.result[k], p[1].s) = w
       /\ \A n \in TableNames, sc \in ColumnNames, sv \in RawValues,
             wc \in ColumnNames, wv \in RawValues :
              (/\ last'.op = "update" /\ last'.kind = "ok"
               /\ Update(n, sc, sv, wc, wv))
              => LET w == ValidateValue(wv, GetColumn(tables[n], wc).type).v
                 IN  Len(last'.ids) <= Len(ExactRows(LoadTableData(data, n), wc, w))
       /\ \A n \in TableNames, wc \in ColumnNames, wv \in RawValues,
             answer \in Answers :
              (/\ last'.op = "delete" /\ last'.kind = "ok"
               /\ Delete(n, wc, wv, answer))
              => LET w == ValidateValue(wv, GetColumn(tables[n], wc).type).v
                 IN  Len(last'.ids) <= Len(ExactRows(LoadTableData(data, n), wc, w))]_vars

\* C19: a successful update overwrites the set column with the coerced
\* set-value in exactly the records whose where-column was the coerced
\* where-value before the call, leaves every other record and every other
\* field as it was, keeps the number and the order of the records, and
\* reports the IDs of the matched records in stored order (as many as were
\* matched).  The reported IDs may be the ones the records had before the
\* call or the ones they have after it.
C19_UpdateRewritesMatches ==
    [][\A n \in TableNames, sc \in ColumnNames, sv \in RawValues,
          wc \in ColumnNames, wv \in RawValues :
          (/\ last'.op = "update" /\ last'.kind = "ok"
           /\ Update(n, sc, sv, wc, wv))
          => LET old == LoadTableData(data, n)
                 w == ValidateValue(wv, GetColumn(tables[n], wc).type).v
                 v == ValidateValue(sv, GetColumn(tables[n], sc).type).v
                 m == ExactRows(old, wc, w)
             IN  /\ m # <<>>
                 /\ LoadTableData(data', n) = [k \in 1..Len(old) |->
                                   IF Get(old[k], wc) = w
                                   THEN SetField(old[k], sc, v)
                                   ELSE old[k]]
                 /\ \A x \in DOMAIN data \ {n} :
                        x \in DOMAIN data' /\ data'[x] = data[x]
                 /\ \/ last'.ids = IdsOf(m)
                    \/ last'.ids = [k \in 1..Len(m) |->
                                       SetField(m[k], sc, v)[s_ID]]]_vars

\* C20: a successful delete removes exactly the records whose where-column
\* is the coerced where-value, keeps every other record as it was and in the
\* same relative order, and reports the IDs of the removed records in their
\* stored order; the removed and the surviving records together are the
\* records stored before the call.
C20_DeleteRemovesMatches ==
    [][\A n \in TableNames, wc \in ColumnNames, wv \in RawValues,
          answer \in Answers :
          (/\ last'.op = "delete" /\ last'.kind = "ok"
           /\ Delete(n, wc, wv, answer))
          => LET old == LoadTableData(data, n)
                 w == ValidateValue(wv, GetColumn(tables[n], wc).type).v
             IN  /\ ExactRows(old, wc, w) # <<>>
                 /\ LoadTableData(data', n) = OtherRows(old, wc, w)
                 /\ Len(LoadTableData(data', n)) + Len(last'.ids) = Len(old)
                 /\ \A x \in DOMAIN data \ {n} :
                        x \in DOMAIN data' /\ data'[x] = data[x]
                 /\ last'.ids = IdsOf(ExactRows(old, wc, w))]_vars

\* the call that last describes succeeded, and the call before it was a
\* successful op on the same table
Follows(op) ==
    /\ last.op = op /\ last.kind = "ok"
    /\ last'.kind = "ok" /\ last'.table = last.table

\* C21: the first insert into a table that was just created receives ID 1
\* and an insert that directly follows the insert that received ID k
\* receives ID k + 1, so that the k-th of a run of inserts receives ID k; an
\* insert that directly follows a delete receives the largest remaining ID
\* plus 1, or 1 if no record remains.
C21_IdsCountUp ==
    [][last'.op = "insert" =>
          /\ Follows("create_table") => last'.ids = <<IntV(1)>>
          /\ Follows("insert") => last'.ids = <<IntV(last.ids[1].i + 1)>>
          /\ Follows("delete") =>
                 LET old == LoadTableData(data, last.table)
                 IN  last'.ids = <<IntV(IF old = <<>> THEN 1 ELSE MaxOf(old) + 1)>>]_vars

\* C22: every stored record of every table has an ID field whose value is
\* a positive integer.
C22_IdsArePositiveInts ==
    \A n \in DOMAIN data :
        \A k \in 1..Len(LoadTableData(data, n)) :
            LET record == LoadTableData(data, n)[k]
            IN  /\ s_ID \in DOMAIN record
                /\ record[s_ID].t = "int"
                /\ record[s_ID].i > 0

\* C23: an insert on a present table with a number of values other than
\* the number of columns minus 1 fails with ValidationError and leaves the
\* row stores as they were; a successful insert with that number of values
\* stores the i-th coerced value under the name of the i-th column after ID.
C23_ValuesGoToTheirColumns ==
    [][\A n \in TableNames, values \in ValueLists :
          (/\ last'.op = "insert"
           /\ n \in DOMAIN tables
           /\ Insert(n, values))
          => IF Len(values) # Len(tables[n]) - 1
             THEN last'.kind = "ValidationError" /\ UNCHANGED data
             ELSE last'.kind = "ok" =>
                      LET new == LoadTableData(data', n)
                          record == new[Len(new)]
                      IN  \A i \in 1..Len(values) :
                              /\ tables[n][i + 1].name \in DOMAIN record
                              /\ record[tables[n][i + 1].name] =
                                     ValidateValue(values[i],
                                                   tables[n][i + 1].type).v]_vars

\* the kinds of failure of the core operations
FourKinds ==
    {"TableExistsError", "TableNotFoundError", "ValidationError",
     "RecordNotFoundError"}

\* C24: a core operation that does not succeed (and was not cancelled at
\* the prompt) fails with one of the four kinds TableExistsError,
\* TableNotFoundError, ValidationError, RecordNotFoundError.
C24_FailuresHaveFourKinds ==
    last.kind \notin {"ok", "cancelled"} => last.kind \in FourKinds

\* C26: right after a successful create_table the row store of the created
\* table holds no record, whatever was stored under that name before, and
\* an insert that directly follows on that table receives ID 1.
C26_CreatedTableIsEmpty ==
    [][/\ (last'.op = "create_table" /\ last'.kind = "ok") =>
              LoadTableData(data', last'.table) = <<>>
       /\ (last'.op = "insert" /\ Follows("create_table")) =>
              /\ last'.ids = <<IntV(1)>>
              /\ Len(LoadTableData(data', last'.table)) = 1]_vars

\* table t was created again after a table t with stored records was
\* dropped: the cache still holds the records of the earlier table
C26_Witness ==
    /\ last.op = "create_table" /\ last.kind = "ok" /\ last.table = s_t
    /\ CacheKey(s_t, NoneArg, NoneArg) \in DOMAIN cache
    /\ cache[CacheKey(s_t, NoneArg, NoneArg)] # <<>>
    /\ LoadTableData(data, s_t) = <<>>

\* C27: list_tables reports the names of the tables that are present, each
\* once and no other name, in ascending lexicographic order.
C27_ListIsSortedAndExact ==
    LET r == ListTables(tables)
    IN  /\ {r[k] : k \in 1..Len(r)} = DOMAIN tables
        /\ Len(r) = Cardinality(DOMAIN tables)
        /\ \A i, j \in 1..Len(r) : i < j => StrLess(r[i], r[j])

\* table t was created after table u, and is listed before it
C27_Witness ==
    /\ last.op = "create_table" /\ last.kind = "ok" /\ last.table = s_t
    /\ s_u \in DOMAIN tables
    /\ ListTables(tables) = <<s_t, s_u>>

\* text is word, compared without regard to the case of its letters
SameIgnoringCase(text, word) ==
    /\ Len(text) = Len(word)
    /\ \A k \in 1..Len(word) : text[k] \in {word[k], UpperChar(word[k])}

\* C29: coercing a raw text to bool returns true exactly when the text is
\* true, 1 or yes in any mix of upper and lower case, false exactly when it
\* is false, 0 or no in any mix of case, and fails with ValidationError for
\* every other text.
C29_BoolCoercion ==
    (last.op = "_validate_value" /\ last.wcol.s = s_bool) =>
        LET text == last.wval.s
            isTrue == \E w \in {<<"t", "r", "u", "e">>, <<"1">>, <<"y", "e", "s">>} :
                          SameIgnoringCase(text, w)
            isFalse == \E w \in {<<"f", "a", "l", "s", "e">>, <<"0">>, <<"n", "o">>} :
                           SameIgnoringCase(text, w)
        IN  /\ isTrue <=> (last.kind = "ok" /\ last.result = <<BoolV(TRUE)>>)
            /\ isFalse <=> (last.kind = "ok" /\ last.result = <<BoolV(FALSE)>>)
            /\ (~isTrue /\ ~isFalse) <=> last.kind = "ValidationError"

\* the text yEs was coerced to bool
C29_Witness ==
    /\ last.op = "_validate_value" /\ last.wcol.s = s_bool
    /\ last.wval.s = <<"y", "E", "s">>
    /\ last.result = <<BoolV(TRUE)>>

\* C30: coercing a raw text to str returns the text without its first and
\* last character when it starts with a double quote and ends with another
\* double quote, and returns every other text, the text of one double quote
\* among them, as it is.
C30_StrCoercion ==
    (last.op = "_validate_value" /\ last.wcol.s = s_str) =>
        LET text == last.wval.s
            wrapped == Len(text) >= 2 /\ text[1] = Quote /\ text[Len(text)] = Quote
        IN  /\ last.kind = "ok"
            /\ last.result = <<StrV(IF wrapped THEN SubSeq(text, 2, Len(text) - 1)
                                    ELSE text)>>

\* C25: a failure of the store under a core operation is reported with a
\* kind that is neither success nor one of the four kinds of failure, and
\* reaches the caller as an exception, not as a value the operation
\* returns.
C25_StoreFailureIsNotReturned ==
    [][\A op \in CoreOperations, classes \in StoreErrors :
          StoreFails(op, classes) =>
              /\ last'.kind \notin FourKinds \cup {"ok"}
              /\ ~last'.returned]_vars

\* C28: a load that follows a save of the same table returns the list that
\* was saved, record for record and field for field, whatever the file held
\* before; a save leaves the other tables' files alone, a load leaves every
\* file alone.
C28_SaveThenLoad ==
    [][/\ last'.op = "save_table_data" =>
              /\ LoadTableData(data', last'.table) = last'.result
              /\ \A n \in DOMAIN data \ {last'.table} :
                     n \in DOMAIN data' /\ data'[n] = data[n]
       /\ last'.op = "load_table_data" =>
              /\ UNCHANGED data
              /\ (last.op = "save_table_data" /\ last.table = last'.table) =>
                     last'.result = last.result]_vars

\* a list of two records with a bool, an int and a str field was loaded
\* back while the other table's file holds records
C28_Witness ==
    /\ last.op = "load_table_data" /\ last.table = s_t
    /\ last.result = << (s_ID :> BoolV(TRUE)),
                        (s_ID :> IntV(0)) @@ (s_None :> StrV(<<"1">>)) >>
    /\ s_u \in DOMAIN data /\ data[s_u] # <<>>

\* C31: no two records stored for one table have the same ID.
C31_IdsAreUnique ==
    \A n \in DOMAIN data :
        LET rows == LoadTableData(data, n)
        IN  \A i, j \in 1..Len(rows) : i # j => rows[i][s_ID] # rows[j][s_ID]

\* C32: the command loop ends only on exit.  Every other line that is not
\* blank, a select with an undeclared where column or a where value that
\* cannot be coerced among them, prints one result or error text, and after
\* every line but exit the loop is at its prompt again.
C32_LoopEndsOnlyOnExit ==
    [][last'.op # "exit" =>
          /\ Prompting'
          /\ last'.op # "blank" => Printed(last', tables') = 1]_vars

\* the answers the prompt takes as a yes, whatever their case
YesWords == {<<"y">>, <<"y", "e", "s">>, <<"cyr_de">>, <<"cyr_de", "cyr_a">>}

\* the answers that are none of them
Refusals == {answer \in Answers : ToLower(answer) \notin YesWords}

\* the call was cancelled before any check and before any read, and left
\* the schema set, the persisted metadata, every row store and the select
\* cache as they were
CancelledUntouched ==
    /\ last'.kind = "cancelled"
    /\ ~last'.loaded
    /\ UNCHANGED <<tables, metadata, data, cache>>

\* C33: a drop_table or a delete whose prompt is answered with anything but
\* y, yes or their two Cyrillic forms, in any case, is cancelled before any
\* check and before any read: the schema set, the persisted metadata, every
\* row store and the select cache stay as they were, whether or not the
\* table exists and whether or not the predicate is valid.
C33_RefusedPromptChangesNothing ==
    [][/\ last'.op = "drop_table" =>
              \A n \in TableNames, answer \in Refusals :
                  CancelledUntouched \/ ~DropTable(n, answer)
       /\ last'.op = "delete" =>
              \A n \in TableNames, wc \in ColumnNames, wv \in RawValues,
                 answer \in Refusals :
                  CancelledUntouched \/ ~Delete(n, wc, wv, answer)]_vars

\* a delete was cancelled while a table, its records and a cached select
\* were there to lose
C33_Witness ==
    /\ last.op = "delete" /\ last.kind = "cancelled"
    /\ \E n \in DOMAIN tables : n \in DOMAIN data /\ LoadTableData(data, n) # <<>>
    /\ DOMAIN cache # {}

\* C34: a row store exists only for a table name that is in the schema set.
\* insert, update and delete write no rows for an absent table, and
\* drop_table leaves no rows behind for the name it drops.
C34_RowsOnlyForDeclaredTables ==
    DOMAIN data \subseteq DOMAIN tables

\* a table was dropped and has no row store, while the other table is
\* declared and keeps its records
C34_Witness ==
    /\ last.op = "drop_table" /\ last.kind = "ok"
    /\ last.table \notin DOMAIN tables
    /\ \E n \in DOMAIN tables : n \in DOMAIN data /\ LoadTableData(data, n) # <<>>

\* a select of the table and predicate would fail in this state: it is not
\* served from the cache and _execute_select raises
WouldFail(n, p) ==
    /\ ~CacheHit(cache, CacheKey(n, p[1], p[2]))
    /\ ExecKind(tables, n, p[1], p[2]) # "ok"

====
